---- MODULE Spec2Model ----
(***************************************************************************)
(* Model of libamc: the AMC servo drive serial protocol engine.            *)
(*   src/src/crc.c  checksum table and byte fold                           *)
(*   src/src/amc.c  session, command writer, response reader               *)
(* The host is modelled as little-endian (x86 / ARM Linux): a uint16_t     *)
(* lies in memory low byte first, htons/ntohs swap the two bytes, and the  *)
(* bit-fields of union amc_control are allocated from the least            *)
(* significant bit.                                                        *)
(***************************************************************************)
EXTENDS Integers, Sequences, FiniteSets, TLC

(***************************************************************************)
(* Bounds of the model                                                     *)
(***************************************************************************)
\* number of amc_cmd_write calls followed on one session (more than 16, so
\* that the sequence counter wraps)
MaxCalls == 17
\* longest payload, in bytes, handed to amc_cmd_write
MaxPayloadLen == 2
\* largest payloadLenWords a response of the drive announces
MaxWords == 2
\* largest payload_max_size, in bytes, handed to amc_resp_read
MaxCap == 4
\* most bytes left over by earlier calls that a further amc_resp_read call is
\* followed on
MaxStale == 2
\* most calls of amc_cmd_write in the exchanges with an echoing peer
MaxExchanges == 2
\* most facade calls followed on one session
MaxFacadeCalls == 2
\* most bytes folded in a row into one accumulator by crc.c on its own
MaxFolds == 2
\* most interrupted waits counted in one call of amc_resp_read
MaxInterrupts == 1
\* number of table entries an interleaved table build is followed through
MaxEntries == 2
\* most times the processor goes from one caller of a session to the other
MaxSwitches == 2
\* most reads of one call of amc_resp_read that fail
MaxReadErrors == 1

(***************************************************************************)
(* Program constants (src/src/amc.h)                                       *)
(***************************************************************************)
AMC_SOF_BYTE == 165
AMC_CRC_POLY == 4129
AMC_DEFAULT_TIMEOUT_MS == 1000
AMC_CMDTYPE_READ == 1
AMC_CMDTYPE_WRITE == 2
AMC_CMDTYPE_READWRITE == 3
AMC_CMDRESP_COMPLETE == 1
AMC_CMDRESP_INCOMPLETE == 2
AMC_CMDRESP_INVALID == 3
AMC_CMDRESP_NOACCESS == 6
AMC_CMDRESP_FRAMEERR == 8

\* sizeof(struct amc_command) == sizeof(struct amc_response), packed
SizeofHeader == 8
\* sizeof(uint16_t)
SizeofU16 == 2

(***************************************************************************)
(* Fixed-width integer arithmetic                                          *)
(***************************************************************************)
Min(a, b) == IF a < b THEN a ELSE b

U8(x) == x % 256
U16(x) == x % 65536

\* bitwise exclusive or of two naturals, bit by bit
RECURSIVE XorBits(_, _)
XorBits(a, b) ==
    IF a = 0 THEN b
    ELSE IF b = 0 THEN a
    ELSE (((a % 2) + (b % 2)) % 2) + 2 * XorBits(a \div 2, b \div 2)

\* the exclusive or of two 4-bit values, tabulated
XorNibble == [x \in 0..15 |-> [y \in 0..15 |-> XorBits(x, y)]]

\* the C operator ^ on non-negative values, four bits at a time
RECURSIVE Xor(_, _)
Xor(a, b) ==
    IF a = 0 THEN b
    ELSE IF b = 0 THEN a
    ELSE XorNibble[a % 16][b % 16] + 16 * Xor(a \div 16, b \div 16)

\* htons / ntohs on a little-endian host: swap the two bytes
htons(x) == (x % 256) * 256 + (x \div 256)
ntohs(x) == (x % 256) * 256 + (x \div 256)

\* the two bytes of a uint16_t as they lie in memory (low byte first)
U16Bytes(x) == << x % 256, x \div 256 >>
\* the uint16_t that two bytes in memory hold
U16FromBytes(lo, hi) == lo + 256 * hi

(***************************************************************************)
(* crc.c                                                                   *)
(***************************************************************************)
\* the for loop of crchware: i iterations left
RECURSIVE crchware_loop(_, _, _, _)
crchware_loop(i, data, genpoly, accum) ==
    IF i = 0 THEN accum
    ELSE LET top == (Xor(data, accum) \div 32768) % 2
             acc2 == IF top = 1
                     THEN U16(Xor(accum * 2, genpoly))
                     ELSE U16(accum * 2)
         IN crchware_loop(i - 1, U16(data * 2), genpoly, acc2)

crchware(data, genpoly, accum) ==
    crchware_loop(8, U16(data * 256), genpoly, accum)

\* amc_crc_mktable running the shift register from an accumulator of ones
amc_crc_mktable_fromOnes(poly) == [i \in 0..255 |-> crchware(i, poly, 65535)]

amc_crc_mktable(poly) == [i \in 0..255 |-> crchware(i, poly, 0)]

\* amc_crc_check_word taking the table index from the low byte of the
\* accumulator
amc_crc_check_word_lowByte(data, accumulator, crc_table) ==
    U16(Xor(accumulator * 256, crc_table[Xor(accumulator % 256, data)]))

\* the new value of *accumulator
amc_crc_check_word(data, accumulator, crc_table) ==
    U16(Xor(accumulator * 256, crc_table[Xor(accumulator \div 256, data)]))

\* *(buffer + ctr) for the object buffer, a sequence of bytes.  The folds of
\* amc.c stay inside the object they read; a byte past its end reads as 0.
ByteAt(buffer, ctr) ==
    IF ctr < Len(buffer) THEN buffer[ctr + 1] ELSE 0

\* for (ctr = 0; ctr < bytes_to_check; ctr++)
\*     amc_crc_check_word(*(buffer + ctr), &crc, drv->crc_table);
RECURSIVE CrcLoop(_, _, _, _, _)
CrcLoop(buffer, ctr, bytes_to_check, crc, crc_table) ==
    IF ctr < bytes_to_check
    THEN CrcLoop(buffer, ctr + 1, bytes_to_check,
                 amc_crc_check_word(ByteAt(buffer, ctr), crc, crc_table), crc_table)
    ELSE crc

(***************************************************************************)
(* Inputs of the model                                                     *)
(***************************************************************************)
\* the sessions created: the drive address given to amc_drive_new and the
\* value the debug field, which amc_drive_new leaves unset, happens to hold
Sessions == {[address |-> 1, debug |-> 0], [address |-> 63, debug |-> 1]}
\* uninitialised memory: the value every byte of a fresh stack object holds
Garbage == {0, 255}
\* access_type arguments: 1..3 are the AMC_CMDTYPE_* values, 0 and 4 are not
AccessTypes == 0..4
\* (index, offset) pairs the caller addresses
IndexOffsets == {<<11, 0>>, <<140, 1>>}
\* response_len arguments, in bytes
ResponseLens == {3, 256, 512}
\* payload bytes
PayloadBytes == {1, 255}

RECURSIVE SeqsOfLen(_, _)
SeqsOfLen(S, n) ==
    IF n = 0 THEN {<< >>}
    ELSE {Append(q, b) : q \in SeqsOfLen(S, n - 1), b \in S}

\* the payload buffers handed to amc_cmd_write; payload_len is their length
Payloads == UNION {SeqsOfLen(PayloadBytes, n) : n \in 0..MaxPayloadLen}

VARIABLES
    drv,      \* struct amc_drive: the session
    ncalls,   \* number of amc_cmd_write calls made on the session so far
    pc,       \* position of the caller
    call,     \* arguments of the amc_cmd_write call in progress / last made
    cmd,      \* the caller's struct amc_command
    tx,       \* bytes the transport accepted from the last writev
    ret,      \* return value of the last call
    rx,       \* bytes sent by the drive and not yet read, oldest first
    pending,  \* the drive has sent a response that no call has begun to read
    rcall,    \* arguments of the amc_resp_read call in progress / last made
    rsp,      \* the caller's struct amc_response, as its 8 bytes
    pbuf,     \* the caller's payload buffer, payload_max_size bytes
    readback_crc, \* the local readback_crc, as its 2 bytes
    rd,       \* the other locals of amc_resp_read
    taken,    \* bytes the call has read from the transport, in order
    ret_at,   \* source line of the return statement the call left by
    fac,      \* the facade call in progress: its function, arguments and result
    genpoly,  \* crc.c on its own: the polynomial given to amc_crc_mktable
    crctable, \* crc.c on its own: the table amc_crc_mktable returned
    accum,    \* crc.c on its own: the accumulator amc_crc_check_word works on
    folded,   \* crc.c on its own: accumulator and data of the last fold
    static_i, \* crc.c: the static int i of crchware, one for all its calls
    bld,      \* the table builds in progress: the locals of each build
    parked,   \* a second caller of the session: its locals while it waits
    switches  \* number of times the processor went from one caller to the other

wvars == << ncalls, call, cmd, tx >>
rvars == << rx, pending, rcall, rsp, pbuf, readback_crc, rd, taken, ret_at >>
tvars == << static_i, bld, parked, switches >>
xvars == << fac, genpoly, crctable, accum, folded, tvars >>
vars == << drv, pc, ret, wvars, rvars, xvars >>

(***************************************************************************)
(* amc.h: union amc_control and struct amc_command                         *)
(***************************************************************************)
\* union amc_control: the byte made of the bit-fields cmd:2, seq:4, rsvd:2
ControlByte(bits) == bits.cmd + 4 * bits.seq + 64 * bits.rsvd
\* the bit-fields of a control byte
ControlBits(byte) ==
    [cmd |-> byte % 4, seq |-> (byte \div 4) % 16, rsvd |-> (byte \div 64) % 4]

\* the 8 bytes of a struct amc_command in memory ((uint8_t *)cmd)
CommandBytes(c) ==
    << c.sof, c.addr, ControlByte(c.control), c.index, c.offset, c.payload_len >>
    \o U16Bytes(c.crc)

\* a struct amc_command on the stack before any field is set
FreshCommand(g) ==
    [sof |-> g, addr |-> g, control |-> ControlBits(g), index |-> g,
     offset |-> g, payload_len |-> g, crc |-> U16FromBytes(g, g)]

NoCommand == FreshCommand(0)
NoCall ==
    [cmd |-> NoCommand, access_type |-> 0, response_len |-> 0,
     payload |-> << >>, payload_len |-> 0]

(***************************************************************************)
(* amc.c: amc_drive_new                                                    *)
(***************************************************************************)
\* the session after a successful amc_drive_new; debug is not set by it
amc_drive_new(device, address, debug) ==
    [crc_table |-> amc_crc_mktable(AMC_CRC_POLY),
     seq_ctr |-> 0,
     address |-> address,
     timeout_ms |-> AMC_DEFAULT_TIMEOUT_MS,
     device |-> device,
     debug |-> debug]

(***************************************************************************)
(* amc.c: amc_cmd_write                                                    *)
(***************************************************************************)
\* SeqNext with the wrap test off by one: the counter reaches 16
SeqNext_wrapLate(seq_ctr) ==
    IF U8(seq_ctr + 1) > 16 THEN 0 ELSE U8(seq_ctr + 1)

\* drv->seq_ctr++; if (drv->seq_ctr >= 16) drv->seq_ctr = 0;
SeqNext(seq_ctr) ==
    IF U8(seq_ctr + 1) >= 16 THEN 0 ELSE U8(seq_ctr + 1)

\* IncrementSeq leaving the session with no time to wait for a response
IncrementSeq_clearsTimeout(d) ==
    [d EXCEPT !.seq_ctr = SeqNext(d.seq_ctr), !.timeout_ms = 0]

\* the session after drv->seq_ctr++ and the wrap test: no other field of
\* *drv is assigned in amc_cmd_write
IncrementSeq(d) == [d EXCEPT !.seq_ctr = SeqNext(d.seq_ctr)]

\* the header fields set before the switch
SetHeaderFields(c, d, access_type) ==
    [c EXCEPT !.sof = AMC_SOF_BYTE,
              !.control = [cmd |-> access_type % 4, seq |-> d.seq_ctr % 16, rsvd |-> 0],
              !.addr = U8(d.address)]

\* AccessTypeValid with access type 0 taken as a write
AccessTypeValid_zeroAccepted(access_type) ==
    access_type \in {0, AMC_CMDTYPE_READ, AMC_CMDTYPE_WRITE, AMC_CMDTYPE_READWRITE}

\* switch (access_type): whether a case other than default is taken
AccessTypeValid(access_type) ==
    access_type \in {AMC_CMDTYPE_READ, AMC_CMDTYPE_WRITE, AMC_CMDTYPE_READWRITE}

\* switch (access_type): the value stored in the uint8_t cmd->payload_len
PayloadLenWords(access_type, response_len, payload_len) ==
    IF access_type = AMC_CMDTYPE_READ
    THEN U8(response_len \div SizeofU16)
    ELSE U8(payload_len \div SizeofU16)

\* HeaderCrc without the conversion to network byte order
HeaderCrc_noHtons(c, crc_table) ==
    LET c0 == [c EXCEPT !.crc = 0]
        bytes_to_check == SizeofHeader - SizeofU16
    IN [c0 EXCEPT !.crc =
            CrcLoop(CommandBytes(c0), 0, bytes_to_check, c0.crc, crc_table)]

\* cmd->crc = 0; fold the bytes before the crc field; cmd->crc = htons(cmd->crc)
HeaderCrc(c, crc_table) ==
    LET c0 == [c EXCEPT !.crc = 0]
        bytes_to_check == SizeofHeader - SizeofU16
    IN [c0 EXCEPT !.crc =
            htons(CrcLoop(CommandBytes(c0), 0, bytes_to_check, c0.crc, crc_table))]

\* payload_crc: 0, or the converted fold of the payload when payload_len > 0
PayloadCrc(payload, payload_len, crc_table) ==
    IF payload_len > 0
    THEN htons(CrcLoop(payload, 0, payload_len, 0, crc_table))
    ELSE 0

\* IovBytes with the payload checksum put before the payload
IovBytes_crcFirst(c, payload, payload_len, payload_crc) ==
    IF payload_len > 0
    THEN CommandBytes(c) \o U16Bytes(payload_crc) \o SubSeq(payload, 1, payload_len)
    ELSE CommandBytes(c)

\* the iovec array handed to writev, as one byte sequence
IovBytes(c, payload, payload_len, payload_crc) ==
    IF payload_len > 0
    THEN CommandBytes(c) \o SubSeq(payload, 1, payload_len) \o U16Bytes(payload_crc)
    ELSE CommandBytes(c)

\* bytes_to_write: the sum of the iov_len of the iovecs used
BytesToWrite(payload_len) ==
    IF payload_len > 0 THEN SizeofHeader + payload_len + SizeofU16 ELSE SizeofHeader

\* WriteReturn reporting a short write as a partial success
WriteReturn_partial(bytes_written, bytes_to_write) ==
    bytes_written

\* if (bytes_written != bytes_to_write) return -1; return bytes_written;
WriteReturn(bytes_written, bytes_to_write) ==
    IF bytes_written # bytes_to_write THEN -1 ELSE bytes_written

\* cmd->payload_len = ... of the switch
SetPayloadLen(c, access_type, response_len, payload_len) ==
    [c EXCEPT !.payload_len = PayloadLenWords(access_type, response_len, payload_len)]

\* what a call that reaches writev has built: the finished header c and the
\* frame of the iovecs
BuiltFrame(c, payload, payload_len, payload_crc) ==
    [valid |-> TRUE, cmd |-> c,
     frame |-> IovBytes(c, payload, payload_len, payload_crc)]

\* PayloadCrc continued from the header checksum of c instead of from 0
PayloadCrc_chained(c, payload, payload_len, crc_table) ==
    IF payload_len > 0
    THEN htons(CrcLoop(payload, 0, payload_len, ntohs(c.crc), crc_table))
    ELSE 0

\* BuildCommand with the payload checksum continued from the header checksum
BuildCommand_chained(d, c, access_type, response_len, payload, payload_len) ==
    IF AccessTypeValid(access_type)
    THEN BuiltFrame(
             HeaderCrc(SetPayloadLen(SetHeaderFields(c, d, access_type),
                                     access_type, response_len, payload_len),
                       d.crc_table),
             payload, payload_len,
             PayloadCrc_chained(
                 HeaderCrc(SetPayloadLen(SetHeaderFields(c, d, access_type),
                                         access_type, response_len, payload_len),
                           d.crc_table),
                 payload, payload_len, d.crc_table))
    ELSE [valid |-> FALSE, cmd |-> SetHeaderFields(c, d, access_type),
          frame |-> << >>]

\* the header and frame amc_cmd_write builds from the session d (counter
\* already advanced), the caller's struct c and the arguments; an invalid
\* access type returns at the default case of the switch
BuildCommand(d, c, access_type, response_len, payload, payload_len) ==
    IF AccessTypeValid(access_type)
    THEN BuiltFrame(
             HeaderCrc(SetPayloadLen(SetHeaderFields(c, d, access_type),
                                     access_type, response_len, payload_len),
                       d.crc_table),
             payload, payload_len,
             PayloadCrc(payload, payload_len, d.crc_table))
    ELSE [valid |-> FALSE, cmd |-> SetHeaderFields(c, d, access_type),
          frame |-> << >>]

\* the caller declares a struct amc_command, sets index and offset and
\* chooses the arguments of the call
CallCmdWrite ==
    /\ pc = "idle"
    /\ ncalls < MaxCalls
    /\ \E g \in Garbage, io \in IndexOffsets, at \in AccessTypes,
          rl \in ResponseLens, p \in Payloads :
          /\ cmd' = [FreshCommand(g) EXCEPT !.index = io[1], !.offset = io[2]]
          /\ call' = [cmd |-> cmd', access_type |-> at, response_len |-> rl,
                      payload |-> p, payload_len |-> Len(p)]
    /\ pc' = "cmd_call"
    /\ UNCHANGED << xvars, drv, ncalls, tx, ret, rvars >>

\* the whole of amc_cmd_write; bytes_written is the result of writev
amc_cmd_write ==
    /\ pc = "cmd_call"
    /\ \E d \in {IncrementSeq(drv)} :
       \E b \in {BuildCommand(d, cmd, call.access_type, call.response_len,
                              call.payload, call.payload_len)} :
          /\ drv' = d
          /\ cmd' = b.cmd
          /\ IF b.valid
             THEN \E bytes_written \in -1..BytesToWrite(call.payload_len) :
                     /\ tx' = SubSeq(b.frame, 1, bytes_written)
                     /\ ret' = WriteReturn(bytes_written,
                                           BytesToWrite(call.payload_len))
             ELSE /\ tx' = << >>
                  /\ ret' = -1
    /\ ncalls' = ncalls + 1
    /\ pc' = "cmd_ret"
    /\ UNCHANGED << call, rvars, xvars >>

\* the caller takes the result; its struct amc_command goes out of scope
CmdReturn ==
    /\ pc = "cmd_ret"
    /\ pc' = "idle"
    /\ cmd' = NoCommand
    /\ call' = NoCall
    /\ tx' = << >>
    /\ ret' = 0
    /\ UNCHANGED << xvars, drv, ncalls, rvars >>

(***************************************************************************)
(* amc.h: struct amc_response                                              *)
(***************************************************************************)
\* the fields of the struct amc_response that lies in the 8 bytes b
ResponseOf(b) ==
    [sof |-> b[1], addr |-> b[2], control |-> ControlBits(b[3]),
     status1 |-> b[4], status2 |-> b[5], payload_len |-> b[6],
     crc |-> U16FromBytes(b[7], b[8])]

(***************************************************************************)
(* The transport: poll and read on drv->device                             *)
(***************************************************************************)
\* what the wait of one loop iteration ends with: poll returns > 0, returns
\* 0, or returns -1 with errno EINTR
PollResults == {"ready", "timeout", "eintr"}

\* the counts a read asked for count bytes may return
ReadCounts(count) == 0..Min(count, Len(rx))

\* Store with the position never advanced: every read stores from the start
Store_atStart(buf, off, bytes) ==
    [i \in 1..Len(buf) |-> IF i <= Len(bytes) THEN bytes[i] ELSE buf[i]]

\* memory buf after bytes are stored from offset off on; a store outside
\* buf does not change buf
Store(buf, off, bytes) ==
    [i \in 1..Len(buf) |->
        IF i - 1 >= off /\ i - 1 < off + Len(bytes)
        THEN bytes[i - off] ELSE buf[i]]

\* how many of n bytes stored from offset off on fall outside an object of
\* size bytes
StoredOutside(size, off, n) ==
    Cardinality({i \in off..(off + n - 1) : i < 0 \/ i >= size})

(***************************************************************************)
(* amc.c: amc_resp_read                                                    *)
(***************************************************************************)
\* the locals at entry; oob counts the bytes stored outside their object and
\* eintr the waits of the call that a signal interrupted (up to
\* MaxInterrupts), errors the reads of the call that failed
RespLocals ==
    [bytes_to_read |-> SizeofHeader, total_bytes_read |-> 0,
     payload_bytes_read |-> 0, rd_off |-> 0, oob |-> 0, eintr |-> 0,
     errors |-> 0]

NoRespCall == [payload_null |-> TRUE, payload_max_size |-> 0]
NoBytes(n) == [i \in 1..n |-> 0]

\* HeaderCrcFails comparing with the crc field as it lies in memory
HeaderCrcFails_noNtohs(b, crc_table) ==
    CrcLoop(b, 0, SizeofHeader - SizeofU16, 0, crc_table) # ResponseOf(b).crc

\* crc != ntohs(rsp->crc), with crc the fold of the bytes before the crc field
HeaderCrcFails(b, crc_table) ==
    CrcLoop(b, 0, SizeofHeader - SizeofU16, 0, crc_table) # ntohs(ResponseOf(b).crc)

\* StatusFails rejecting only the four statuses the code has names for
StatusFails_namedOnly(status1) ==
    status1 \in {AMC_CMDRESP_INCOMPLETE, AMC_CMDRESP_INVALID,
                 AMC_CMDRESP_NOACCESS, AMC_CMDRESP_FRAMEERR}

\* rsp->status1 != AMC_CMDRESP_COMPLETE
StatusFails(status1) == status1 # AMC_CMDRESP_COMPLETE

\* the value returned for a status1 other than complete: return -1
StatusReturn(status1) == -1

\* the line printed for a status1 other than complete: one per case of the
\* switch when drv->debug is set, none otherwise
StatusMessage(debug, status1) ==
    IF debug = 0 THEN ""
    ELSE IF status1 = AMC_CMDRESP_INCOMPLETE THEN "Command not completed"
    ELSE IF status1 = AMC_CMDRESP_INVALID THEN "Invalid command"
    ELSE IF status1 = AMC_CMDRESP_NOACCESS THEN "No access"
    ELSE IF status1 = AMC_CMDRESP_FRAMEERR THEN "Frame error"
    ELSE ""

\* NoPayloadExpected testing bit 0 of the access type instead of bit 1
NoPayloadExpected_lowBit(control) == control.cmd % 2 = 0

\* !(rsp->control.bits.cmd & 0x02)
NoPayloadExpected(control) == (control.cmd \div 2) % 2 = 0

\* PayloadTooLong taking payload_max_size for a count of words
PayloadTooLong_inWords(payload_bytes_read, payload_max_size) ==
    payload_bytes_read > payload_max_size * SizeofU16

\* payload_bytes_read > payload_max_size
PayloadTooLong(payload_bytes_read, payload_max_size) ==
    payload_bytes_read > payload_max_size

\* PayloadCrcFails folding payload_len bytes instead of payload_len words
PayloadCrcFails_bytes(buffer, payload_len, readback, crc_table) ==
    CrcLoop(buffer, 0, payload_len, 0, crc_table)
        # ntohs(U16FromBytes(readback[1], readback[2]))

\* crc != ntohs(readback_crc), with crc the fold of payload_len words of the
\* payload buffer
PayloadCrcFails(buffer, payload_len, readback, crc_table) ==
    CrcLoop(buffer, 0, payload_len * SizeofU16, 0, crc_table)
        # ntohs(U16FromBytes(readback[1], readback[2]))

\* return from amc_resp_read by the return statement at source line
Return(value, line) ==
    /\ ret' = value
    /\ ret_at' = line
    /\ pc' = "resp_ret"

\* CallRespRead with the input of the transport flushed at entry
CallRespRead_flushes ==
    /\ pc = "idle"
    /\ pending \/ Len(rx) <= MaxStale
    /\ pending' = FALSE
    /\ rx' = << >>
    /\ \E g \in Garbage :
          /\ rsp' = [i \in 1..SizeofHeader |-> g]
          /\ \/ \E m \in 0..MaxCap :
                   /\ rcall' = [payload_null |-> FALSE, payload_max_size |-> m]
                   /\ pbuf' = [i \in 1..m |-> g]
             \/ /\ rcall' = NoRespCall
                /\ pbuf' = << >>
    /\ rd' = RespLocals
    /\ readback_crc' = NoBytes(SizeofU16)
    /\ taken' = << >>
    /\ ret_at' = 0
    /\ pc' = "hdr_poll"
    /\ UNCHANGED << xvars, drv, ret, wvars >>

\* the caller declares a struct amc_response and calls amc_resp_read with a
\* payload buffer, or with NULL and size 0
CallRespRead ==
    /\ pc = "idle"
    /\ pending \/ Len(rx) <= MaxStale
    /\ pending' = FALSE
    /\ \E g \in Garbage :
          /\ rsp' = [i \in 1..SizeofHeader |-> g]
          /\ \/ \E m \in 0..MaxCap :
                   /\ rcall' = [payload_null |-> FALSE, payload_max_size |-> m]
                   /\ pbuf' = [i \in 1..m |-> g]
             \/ /\ rcall' = NoRespCall
                /\ pbuf' = << >>
    /\ rd' = RespLocals
    /\ readback_crc' = NoBytes(SizeofU16)
    /\ taken' = << >>
    /\ ret_at' = 0
    /\ pc' = "hdr_poll"
    /\ UNCHANGED << xvars, drv, ret, wvars, rx >>

\* Poll going on to the read after a wait that timed out
Poll_readsAfterTimeout(at, next, line) ==
    /\ pc = at
    /\ \E r \in PollResults :
          \/ /\ r = "ready"
             /\ pc' = next
             /\ UNCHANGED << ret, ret_at, rd >>
          \/ /\ r = "timeout"
             /\ ret' = -1
             /\ ret_at' = line
             /\ pc' = next
             /\ UNCHANGED rd
          \/ /\ r = "eintr"
             /\ pc' = at
             /\ rd' = [rd EXCEPT !.eintr = Min(@ + 1, MaxInterrupts)]
             /\ UNCHANGED << ret, ret_at >>
    /\ UNCHANGED << xvars, drv, wvars, rx, pending, rcall, rsp, pbuf,
                    readback_crc, taken >>

\* Poll leaving the wait loop at an interrupted wait as at a timeout
Poll_eintrFails(at, next, line) ==
    /\ pc = at
    /\ \E r \in PollResults :
          \/ /\ r = "ready"
             /\ pc' = next
             /\ UNCHANGED << ret, ret_at, rd >>
          \/ /\ r = "timeout"
             /\ Return(-1, line)
             /\ UNCHANGED rd
          \/ /\ r = "eintr"
             /\ Return(-1, line)
             /\ rd' = [rd EXCEPT !.eintr = Min(@ + 1, MaxInterrupts)]
    /\ UNCHANGED << xvars, drv, wvars, rx, pending, rcall, rsp, pbuf,
                    readback_crc, taken >>

\* do { ret = poll(...) } while ((ret == -1) && (errno == EINTR));
\* if (ret == 0) return -1;    -- of the loop at position at, whose return
\* statement is at source line; an interrupted wait is waited again
Poll(at, next, line) ==
    /\ pc = at
    /\ \E r \in PollResults :
          \/ /\ r = "ready"
             /\ pc' = next
             /\ UNCHANGED << ret, ret_at, rd >>
          \/ /\ r = "timeout"
             /\ Return(-1, line)
             /\ UNCHANGED rd
          \/ /\ r = "eintr"
             /\ pc' = at
             /\ rd' = [rd EXCEPT !.eintr = Min(@ + 1, MaxInterrupts)]
             /\ UNCHANGED << ret, ret_at >>
    /\ UNCHANGED << xvars, drv, wvars, rx, pending, rcall, rsp, pbuf,
                    readback_crc, taken >>

PollHeader == Poll("hdr_poll", "hdr_read", 203)
PollPayload == Poll("pay_poll", "pay_read", 278)
PollPayloadCrc == Poll("crc_poll", "crc_read", 314)

\* the code between the header loop and the payload loop, for the header
\* bytes b and the locals l
AfterHeader(b, l) ==
    IF HeaderCrcFails(b, drv.crc_table)
    THEN Return(-1, 236) /\ rd' = l
    ELSE IF StatusFails(ResponseOf(b).status1)
    THEN Return(StatusReturn(ResponseOf(b).status1), 256) /\ rd' = l
    ELSE IF NoPayloadExpected(ResponseOf(b).control)
    THEN Return(l.total_bytes_read, 260) /\ rd' = l
    ELSE IF rcall.payload_null
    THEN \* assert(payload != NULL) ends the process
         /\ pc' = "aborted"
         /\ rd' = l
         /\ UNCHANGED << ret, ret_at >>
    ELSE /\ pc' = "pay_poll"
         /\ rd' = [l EXCEPT !.rd_off = 0,
                            !.bytes_to_read = ResponseOf(b).payload_len * SizeofU16,
                            !.payload_bytes_read = 0]
         /\ UNCHANGED << ret, ret_at >>

\* one read of the header loop and, when the header is complete, the checks
\* that follow it
ReadHeader ==
    /\ pc = "hdr_read"
    /\ \E bytes_read \in ReadCounts(rd.bytes_to_read) :
       \E l \in {[rd EXCEPT !.rd_off = @ + bytes_read,
                            !.bytes_to_read = @ - bytes_read,
                            !.total_bytes_read = @ + bytes_read,
                            !.oob = @ + StoredOutside(SizeofHeader, rd.rd_off,
                                                      bytes_read)]},
          b \in {Store(rsp, rd.rd_off, SubSeq(rx, 1, bytes_read))} :
          /\ rsp' = b
          /\ taken' = taken \o SubSeq(rx, 1, bytes_read)
          /\ rx' = SubSeq(rx, bytes_read + 1, Len(rx))
          /\ IF l.bytes_to_read > 0
             THEN /\ pc' = "hdr_poll"
                  /\ rd' = l
                  /\ UNCHANGED << ret, ret_at >>
             ELSE AfterHeader(b, l)
    /\ UNCHANGED << xvars, drv, wvars, pending, rcall, pbuf, readback_crc >>

\* one read of the payload loop, the size check after it and, when the
\* payload is complete, the set-up of the checksum loop
ReadPayload ==
    /\ pc = "pay_read"
    /\ \E bytes_read \in ReadCounts(rd.bytes_to_read) :
       \E l \in {[rd EXCEPT !.rd_off = @ + bytes_read,
                            !.bytes_to_read = @ - bytes_read,
                            !.payload_bytes_read = @ + bytes_read,
                            !.oob = @ + StoredOutside(rcall.payload_max_size,
                                                      rd.rd_off, bytes_read)]} :
          /\ pbuf' = Store(pbuf, rd.rd_off, SubSeq(rx, 1, bytes_read))
          /\ taken' = taken \o SubSeq(rx, 1, bytes_read)
          /\ rx' = SubSeq(rx, bytes_read + 1, Len(rx))
          /\ IF PayloadTooLong(l.payload_bytes_read, rcall.payload_max_size)
             THEN Return(-1, 290) /\ rd' = l
             ELSE IF l.bytes_to_read > 0
             THEN /\ pc' = "pay_poll"
                  /\ rd' = l
                  /\ UNCHANGED << ret, ret_at >>
             ELSE /\ pc' = "crc_poll"
                  /\ rd' = [l EXCEPT !.total_bytes_read = @ + l.payload_bytes_read,
                                     !.rd_off = 0,
                                     !.bytes_to_read = SizeofU16]
                  /\ UNCHANGED << ret, ret_at >>
    /\ UNCHANGED << xvars, drv, wvars, pending, rcall, rsp, readback_crc >>

\* one read of the payload checksum loop and, when it is complete, the
\* comparison that ends the call
ReadPayloadCrc ==
    /\ pc = "crc_read"
    /\ \E bytes_read \in ReadCounts(rd.bytes_to_read) :
       \E l \in {[rd EXCEPT !.rd_off = @ + bytes_read,
                            !.bytes_to_read = @ - bytes_read,
                            !.payload_bytes_read = @ + bytes_read,
                            !.oob = @ + StoredOutside(SizeofU16, rd.rd_off,
                                                      bytes_read)]},
          c \in {Store(readback_crc, rd.rd_off, SubSeq(rx, 1, bytes_read))} :
          /\ readback_crc' = c
          /\ taken' = taken \o SubSeq(rx, 1, bytes_read)
          /\ rx' = SubSeq(rx, bytes_read + 1, Len(rx))
          /\ rd' = l
          /\ IF l.bytes_to_read > 0
             THEN /\ pc' = "crc_poll"
                  /\ UNCHANGED << ret, ret_at >>
             ELSE IF PayloadCrcFails(pbuf, ResponseOf(rsp).payload_len, c,
                                     drv.crc_table)
             THEN Return(-1, 343)
             ELSE Return(l.total_bytes_read, 346)
    /\ UNCHANGED << xvars, drv, wvars, pending, rcall, rsp, pbuf >>

\* the caller takes the result; its buffers and the locals go out of scope
RespReturn ==
    /\ pc = "resp_ret"
    /\ pc' = "idle"
    /\ rcall' = NoRespCall
    /\ rsp' = NoBytes(SizeofHeader)
    /\ pbuf' = << >>
    /\ readback_crc' = NoBytes(SizeofU16)
    /\ rd' = RespLocals
    /\ taken' = << >>
    /\ ret_at' = 0
    /\ ret' = 0
    /\ UNCHANGED << xvars, drv, wvars, rx, pending >>

(***************************************************************************)
(* The drive                                                               *)
(***************************************************************************)
\* address byte of a response: the master
DriveAddr == 255
\* control bytes of the responses: each access type, sequence number 1
DriveControls == {ControlByte([cmd |-> c, seq |-> 1, rsvd |-> 0]) : c \in 0..3}
\* status1 bytes of the responses: the five of amc.h and one that is none
DriveStatuses == {0, AMC_CMDRESP_COMPLETE, AMC_CMDRESP_INCOMPLETE,
                  AMC_CMDRESP_INVALID, AMC_CMDRESP_NOACCESS, AMC_CMDRESP_FRAMEERR}

\* the checksum table the drive uses
DriveTable == amc_crc_mktable(AMC_CRC_POLY)

\* the checksum of bytes as the drive puts it on the wire, high byte first;
\* a bad one differs in its low bit
WireCrc(bytes, good) ==
    << CrcLoop(bytes, 0, Len(bytes), 0, DriveTable) \div 256,
       XorBits(CrcLoop(bytes, 0, Len(bytes), 0, DriveTable) % 256,
               IF good THEN 0 ELSE 1) >>

\* the 8 header bytes of a response
DriveHeader(control, status1, words, good) ==
    << AMC_SOF_BYTE, DriveAddr, control, status1, 0, words >>
    \o WireCrc(<< AMC_SOF_BYTE, DriveAddr, control, status1, 0, words >>, good)

\* responses with status complete: every payload, followed by a good or a
\* bad checksum, or the header alone
DataFrames ==
    UNION {
      UNION {
        {DriveHeader(c, AMC_CMDRESP_COMPLETE, n, TRUE)}
        \cup {DriveHeader(c, AMC_CMDRESP_COMPLETE, n, TRUE) \o p \o WireCrc(p, g) :
                 p \in SeqsOfLen(PayloadBytes, 2 * n), g \in BOOLEAN}
        : n \in 0..MaxWords}
      : c \in DriveControls}

\* responses of every status with a good or a bad header checksum, followed
\* by a payload of the announced length and its checksum
StatusFrames ==
    {DriveHeader(c, s, n, g) \o [i \in 1..(2 * n) |-> 1]
                             \o WireCrc([i \in 1..(2 * n) |-> 1], TRUE) :
        c \in DriveControls, s \in DriveStatuses, n \in 0..MaxWords, g \in BOOLEAN}

DriveFrames == DataFrames \cup StatusFrames

\* the drive sends a response
DriveSend ==
    /\ pc = "idle"
    /\ rx = << >>
    /\ \E f \in DriveFrames : rx' = f
    /\ pending' = TRUE
    /\ UNCHANGED << xvars, drv, pc, ret, wvars, rcall, rsp, pbuf, readback_crc, rd,
                    taken, ret_at >>

\* no facade call is in progress
NoFacade ==
    [fn |-> "none", bufsize |-> 0, garbage |-> 0, ncalls0 |-> 0, reads |-> 0,
     ret |-> 0]

\* crc.c is not exercised on its own
CrcUnused ==
    /\ genpoly = AMC_CRC_POLY
    /\ crctable = << >>
    /\ accum = 0
    /\ folded = << >>

\* the locals of a caller that has made no call
IdleCaller ==
    [pc |-> "idle", call |-> NoCall, cmd |-> NoCommand, ret |-> 0,
     rcall |-> NoRespCall, rsp |-> NoBytes(SizeofHeader), pbuf |-> << >>,
     readback_crc |-> NoBytes(SizeofU16), rd |-> RespLocals, taken |-> << >>,
     ret_at |-> 0, fac |-> NoFacade]

\* the builders of checksum tables
Builders == {1, 2}

\* the locals of a table build that has not begun
NoBuild == [pc |-> "off", poly |-> 0, i |-> 0, crctable |-> << >>, data |-> 0, accum |-> 0, tmp |-> 0]

\* the session after amc_drive_new, and no call made yet
InitSession ==
    /\ static_i = 0
    /\ bld = [b \in Builders |-> NoBuild]
    /\ parked = IdleCaller
    /\ switches = 0
    /\ \E s \in Sessions : drv = amc_drive_new(3, s.address, s.debug)
    /\ ncalls = 0
    /\ pc = "idle"
    /\ call = NoCall
    /\ cmd = NoCommand
    /\ tx = << >>
    /\ ret = 0
    /\ rx = << >>
    /\ pending = FALSE
    /\ rcall = NoRespCall
    /\ rsp = NoBytes(SizeofHeader)
    /\ pbuf = << >>
    /\ readback_crc = NoBytes(SizeofU16)
    /\ rd = RespLocals
    /\ taken = << >>
    /\ ret_at = 0
    /\ fac = NoFacade

Init == InitSession /\ CrcUnused

NextCmd == CallCmdWrite \/ amc_cmd_write \/ CmdReturn

SpecCmd == Init /\ [][NextCmd]_vars

NextResp ==
    \/ DriveSend
    \/ CallRespRead
    \/ PollHeader \/ ReadHeader
    \/ PollPayload \/ ReadPayload
    \/ PollPayloadCrc \/ ReadPayloadCrc
    \/ RespReturn

SpecResp == Init /\ [][NextResp]_vars

\* the answers of the drive to a read of 16 bits that carried sequence
\* number seq: the word asked for, or a refusal
Uint16Answers(seq) ==
    {DriveHeader(ControlByte([cmd |-> AMC_CMDTYPE_WRITE, seq |-> seq, rsvd |-> 0]),
                 AMC_CMDRESP_COMPLETE, 1, TRUE)
        \o << 1, 255 >> \o WireCrc(<< 1, 255 >>, TRUE),
     DriveHeader(ControlByte([cmd |-> AMC_CMDTYPE_READ, seq |-> seq, rsvd |-> 0]),
                 AMC_CMDRESP_INVALID, 0, TRUE)}

(***************************************************************************)
(* amc_resp_read on a transport whose read may fail.  read returns -1 and  *)
(* stores nothing; the code adds the value returned to rd_ptr and to the   *)
(* count read and takes it from bytes_to_read, whatever its sign.          *)
(***************************************************************************)
\* int bytes_read = read(...) = -1 in the header loop: rd_ptr += bytes_read;
\* bytes_to_read -= bytes_read; total_bytes_read += bytes_read;
ReadHeaderError ==
    /\ pc = "hdr_read"
    /\ rd.errors < MaxReadErrors
    /\ rd' = [rd EXCEPT !.rd_off = @ - 1,
                        !.bytes_to_read = @ + 1,
                        !.total_bytes_read = @ - 1,
                        !.errors = @ + 1]
    /\ pc' = "hdr_poll"
    /\ UNCHANGED << xvars, drv, ret, wvars, rx, pending, rcall, rsp, pbuf,
                    readback_crc, taken, ret_at >>

\* read = -1 in the payload loop; payload_bytes_read, one less than it was,
\* does not exceed payload_max_size and the loop goes on
ReadPayloadError ==
    /\ pc = "pay_read"
    /\ rd.errors < MaxReadErrors
    /\ \E l \in {[rd EXCEPT !.rd_off = @ - 1,
                            !.bytes_to_read = @ + 1,
                            !.payload_bytes_read = @ - 1,
                            !.errors = @ + 1]} :
          /\ rd' = l
          /\ IF PayloadTooLong(l.payload_bytes_read, rcall.payload_max_size)
             THEN Return(-1, 290)
             ELSE pc' = "pay_poll" /\ UNCHANGED << ret, ret_at >>
    /\ UNCHANGED << xvars, drv, wvars, rx, pending, rcall, rsp, pbuf,
                    readback_crc, taken >>

\* read = -1 in the payload checksum loop
ReadPayloadCrcError ==
    /\ pc = "crc_read"
    /\ rd.errors < MaxReadErrors
    /\ rd' = [rd EXCEPT !.rd_off = @ - 1,
                        !.bytes_to_read = @ + 1,
                        !.payload_bytes_read = @ - 1,
                        !.errors = @ + 1]
    /\ pc' = "crc_poll"
    /\ UNCHANGED << xvars, drv, ret, wvars, rx, pending, rcall, rsp, pbuf,
                    readback_crc, taken, ret_at >>

\* the drive sends one of its answers to a read of 16 bits
DriveSendAnswer ==
    /\ pc = "idle"
    /\ rx = << >>
    /\ \E f \in Uint16Answers(1) : rx' = f
    /\ pending' = TRUE
    /\ UNCHANGED << xvars, drv, pc, ret, wvars, rcall, rsp, pbuf, readback_crc,
                    rd, taken, ret_at >>

NextRespErr ==
    \/ DriveSendAnswer
    \/ CallRespRead
    \/ PollHeader \/ ReadHeader
    \/ PollPayload \/ ReadPayload
    \/ PollPayloadCrc \/ ReadPayloadCrc
    \/ RespReturn
    \/ ReadHeaderError
    \/ ReadPayloadError
    \/ ReadPayloadCrcError

SpecRespErr == Init /\ [][NextRespErr]_vars

\* a step of a call of amc_resp_read in progress
RespStep ==
    \/ PollHeader \/ ReadHeader
    \/ PollPayload \/ ReadPayload
    \/ PollPayloadCrc \/ ReadPayloadCrc

\* the reader with a call in progress always going on: every wait answers
\* and every read returns
SpecRespFair == SpecResp /\ WF_vars(RespStep)

(***************************************************************************)
(* A command answered by a peer that echoes it                             *)
(***************************************************************************)
\* the response of a peer that follows the checksum rules of the library to
\* the command frame it received: the control byte of the command, status
\* complete, the payload length of the command, the payload and its checksum
EchoResponse(frame) ==
    DriveHeader(frame[3], AMC_CMDRESP_COMPLETE, frame[6], TRUE)
    \o SubSeq(frame, SizeofHeader + 1, SizeofHeader + SizeofU16 * frame[6])
    \o WireCrc(SubSeq(frame, SizeofHeader + 1, SizeofHeader + SizeofU16 * frame[6]),
               TRUE)

\* a caller begins an exchange on a quiet line: it calls amc_cmd_write
EchoCall ==
    /\ ncalls < MaxExchanges
    /\ ~pending
    /\ rx = << >>
    /\ CallCmdWrite

\* the peer has received a whole write or read-write command with a payload
\* of whole words and answers it; the caller goes on with its command and
\* the result of the write still at hand
EchoReply ==
    /\ pc = "cmd_ret"
    /\ ret > 0
    /\ rx = << >>
    /\ call.access_type \in {AMC_CMDTYPE_WRITE, AMC_CMDTYPE_READWRITE}
    /\ call.payload_len % SizeofU16 = 0
    /\ rx' = EchoResponse(tx)
    /\ pending' = TRUE
    /\ pc' = "idle"
    /\ UNCHANGED << xvars, drv, ret, wvars, rcall, rsp, pbuf, readback_crc, rd,
                    taken, ret_at >>

\* the caller takes the result of amc_resp_read and ends the exchange; the
\* structs and buffers of both calls go out of scope
EchoReturn ==
    /\ pc = "resp_ret"
    /\ pc' = "idle"
    /\ cmd' = NoCommand
    /\ call' = NoCall
    /\ tx' = << >>
    /\ rcall' = NoRespCall
    /\ rsp' = NoBytes(SizeofHeader)
    /\ pbuf' = << >>
    /\ readback_crc' = NoBytes(SizeofU16)
    /\ rd' = RespLocals
    /\ taken' = << >>
    /\ ret_at' = 0
    /\ ret' = 0
    /\ UNCHANGED << xvars, drv, ncalls, rx, pending >>

NextEcho ==
    \/ EchoCall \/ amc_cmd_write \/ CmdReturn \/ EchoReply
    \/ CallRespRead
    \/ PollHeader \/ ReadHeader
    \/ PollPayload \/ ReadPayload
    \/ PollPayloadCrc \/ ReadPayloadCrc
    \/ EchoReturn

SpecEcho == Init /\ [][NextEcho]_vars

(***************************************************************************)
(* amc.c: amc_get_string and amc_write_string                              *)
(***************************************************************************)
\* the bufsize arguments: sizeof(uint16_t) and sizeof(uint32_t) of
\* amc_get_uint16 and amc_get_uint32, and a buffer of more than 255 words
BufSizes == {2, 4, 512}

\* the responses the drive answers a facade call with: access type 1 or 2,
\* status complete or invalid, no or one payload word, good or bad
\* checksums, with or without payload and trailer
FacadeFrames ==
    UNION {
      {DriveHeader(ControlByte([cmd |-> c, seq |-> 1, rsvd |-> 0]), s, n, g)}
      \cup {DriveHeader(ControlByte([cmd |-> c, seq |-> 1, rsvd |-> 0]), s, n, g)
               \o [i \in 1..(2 * n) |-> 1]
               \o WireCrc([i \in 1..(2 * n) |-> 1], gp) : gp \in BOOLEAN}
      : c \in {AMC_CMDTYPE_READ, AMC_CMDTYPE_WRITE},
        s \in {AMC_CMDRESP_COMPLETE, AMC_CMDRESP_INVALID},
        n \in 0..1, g \in BOOLEAN}

\* entry of a facade function fn, called on a quiet line, up to its call of
\* amc_cmd_write: cmd.index and cmd.offset are set in a struct amc_command
\* on the stack
FacadeCall(fn, access_type, index, offset, bufsize, response_len, payload, payload_len, g) ==
    /\ pc = "idle"
    /\ fac.fn = "none"
    /\ ncalls < MaxFacadeCalls
    /\ rx = << >>
    /\ fac' = [fn |-> fn, bufsize |-> bufsize, garbage |-> g,
               ncalls0 |-> ncalls, reads |-> 0, ret |-> 0]
    /\ cmd' = [FreshCommand(g) EXCEPT !.index = U8(index), !.offset = U8(offset)]
    /\ call' = [cmd |-> cmd', access_type |-> access_type,
                response_len |-> response_len, payload |-> payload,
                payload_len |-> payload_len]
    /\ pc' = "cmd_call"
    /\ UNCHANGED << drv, ncalls, tx, ret, rvars, genpoly, crctable, accum, folded, tvars >>

\* amc_get_string(drv, index, offset, buffer, bufsize) up to
\* amc_cmd_write(drv, &cmd, AMC_CMDTYPE_READ, bufsize, NULL, 0)
CallGetString ==
    \E g \in Garbage, io \in IndexOffsets, bufsize \in BufSizes :
        FacadeCall("amc_get_string", AMC_CMDTYPE_READ, io[1], io[2], bufsize,
                   bufsize, << >>, 0, g)

\* amc_write_string(drv, index, offset, buffer, bufsize) up to
\* amc_cmd_write(drv, &cmd, AMC_CMDTYPE_WRITE, 0, buffer, bufsize)
CallWriteString ==
    \E g \in Garbage, io \in IndexOffsets, buffer \in Payloads :
        FacadeCall("amc_write_string", AMC_CMDTYPE_WRITE, io[1], io[2],
                   Len(buffer), 0, buffer, Len(buffer), g)

\* the drive has received a whole command and answers while the facade
\* function is between its two calls
DriveReply ==
    /\ pc = "cmd_ret"
    /\ fac.fn # "none"
    /\ ret > 0
    /\ rx = << >>
    /\ ~pending
    /\ \E f \in FacadeFrames : rx' = f
    /\ pending' = TRUE
    /\ UNCHANGED << xvars, drv, pc, ret, wvars, rcall, rsp, pbuf, readback_crc,
                    rd, taken, ret_at >>

\* FacadeAfterWrite going on to amc_resp_read whatever amc_cmd_write returned
FacadeAfterWrite_readsAnyway(fn, payload_null, payload_max_size) ==
    /\ pc = "cmd_ret"
    /\ fac.fn = fn
    /\ fac' = [fac EXCEPT !.reads = @ + 1]
    /\ rcall' = [payload_null |-> payload_null,
                 payload_max_size |-> payload_max_size]
    /\ rsp' = [i \in 1..SizeofHeader |-> fac.garbage]
    /\ pbuf' = [i \in 1..payload_max_size |-> fac.garbage]
    /\ rd' = RespLocals
    /\ readback_crc' = NoBytes(SizeofU16)
    /\ taken' = << >>
    /\ ret_at' = 0
    /\ pending' = FALSE
    /\ pc' = "hdr_poll"
    /\ UNCHANGED << drv, ret, wvars, rx, genpoly, crctable, accum, folded, tvars >>

\* if (0 > amc_cmd_write(...)) return -1; and the call of
\* amc_resp_read(drv, &resp, payload, payload_max_size) that follows
FacadeAfterWrite(fn, payload_null, payload_max_size) ==
    /\ pc = "cmd_ret"
    /\ fac.fn = fn
    /\ IF 0 > ret
       THEN /\ fac' = [fac EXCEPT !.ret = -1]
            /\ pc' = "fac_ret"
            /\ UNCHANGED << drv, ret, wvars, rvars, genpoly, crctable, accum,
                            folded, tvars >>
       ELSE /\ fac' = [fac EXCEPT !.reads = @ + 1]
            /\ rcall' = [payload_null |-> payload_null,
                         payload_max_size |-> payload_max_size]
            /\ rsp' = [i \in 1..SizeofHeader |-> fac.garbage]
            /\ pbuf' = [i \in 1..payload_max_size |-> fac.garbage]
            /\ rd' = RespLocals
            /\ readback_crc' = NoBytes(SizeofU16)
            /\ taken' = << >>
            /\ ret_at' = 0
            /\ pending' = FALSE
            /\ pc' = "hdr_poll"
            /\ UNCHANGED << drv, ret, wvars, rx, genpoly, crctable, accum,
                            folded, tvars >>

\* amc_get_string: amc_resp_read(drv, &resp, buffer, bufsize)
GetStringAfterWrite == FacadeAfterWrite("amc_get_string", FALSE, fac.bufsize)

\* amc_write_string: amc_resp_read(drv, &resp, NULL, 0)
WriteStringAfterWrite == FacadeAfterWrite("amc_write_string", TRUE, 0)

\* if (0 > amc_resp_read(...)) return -1; return 0;
FacadeAfterRead ==
    /\ pc = "resp_ret"
    /\ fac.fn # "none"
    /\ fac' = [fac EXCEPT !.ret = IF 0 > ret THEN -1 ELSE 0]
    /\ pc' = "fac_ret"
    /\ UNCHANGED << drv, ret, wvars, rvars, genpoly, crctable, accum, folded, tvars >>

\* the caller of the facade function takes the result; the locals of the
\* function go out of scope
FacadeReturn ==
    /\ pc = "fac_ret"
    /\ pc' = "idle"
    /\ fac' = NoFacade
    /\ cmd' = NoCommand
    /\ call' = NoCall
    /\ tx' = << >>
    /\ rcall' = NoRespCall
    /\ rsp' = NoBytes(SizeofHeader)
    /\ pbuf' = << >>
    /\ readback_crc' = NoBytes(SizeofU16)
    /\ rd' = RespLocals
    /\ taken' = << >>
    /\ ret_at' = 0
    /\ ret' = 0
    /\ UNCHANGED << drv, ncalls, rx, pending, genpoly, crctable, accum, folded, tvars >>

NextFacade ==
    \/ CallGetString \/ CallWriteString
    \/ amc_cmd_write
    \/ DriveReply
    \/ GetStringAfterWrite \/ WriteStringAfterWrite
    \/ PollHeader \/ ReadHeader
    \/ PollPayload \/ ReadPayload
    \/ PollPayloadCrc \/ ReadPayloadCrc
    \/ FacadeAfterRead
    \/ FacadeReturn

SpecFacade == Init /\ [][NextFacade]_vars

(***************************************************************************)
(* Two callers on one session.  The session, the transport and the count  *)
(* of commands are shared; each caller has its own locals.  The caller    *)
(* that runs owns the variables of the locals, the other one is parked;   *)
(* the functions of amc.c take no lock, so the processor may go from one  *)
(* caller to the other between any two steps.                              *)
(***************************************************************************)
\* the locals of the caller that runs
Context ==
    [pc |-> pc, call |-> call, cmd |-> cmd, ret |-> ret, rcall |-> rcall,
     rsp |-> rsp, pbuf |-> pbuf, readback_crc |-> readback_crc, rd |-> rd,
     taken |-> taken, ret_at |-> ret_at, fac |-> fac]

\* Preempt of a library that holds a lock for the length of a facade call
Preempt_locked ==
    /\ switches < MaxSwitches
    /\ fac.fn = "none"
    /\ pc # "aborted"
    /\ switches' = switches + 1
    /\ parked' = Context
    /\ pc' = parked.pc /\ call' = parked.call /\ cmd' = parked.cmd
    /\ ret' = parked.ret /\ rcall' = parked.rcall /\ rsp' = parked.rsp
    /\ pbuf' = parked.pbuf /\ readback_crc' = parked.readback_crc
    /\ rd' = parked.rd /\ taken' = parked.taken /\ ret_at' = parked.ret_at
    /\ fac' = parked.fac
    /\ UNCHANGED << drv, ncalls, tx, rx, pending, genpoly, crctable, accum,
                    folded, static_i, bld >>

\* the processor leaves the caller that runs, wherever it is, and goes on
\* with the other one; a process ended by an assertion runs no caller
Preempt ==
    /\ switches < MaxSwitches
    /\ pc # "aborted"
    /\ switches' = switches + 1
    /\ parked' = Context
    /\ pc' = parked.pc /\ call' = parked.call /\ cmd' = parked.cmd
    /\ ret' = parked.ret /\ rcall' = parked.rcall /\ rsp' = parked.rsp
    /\ pbuf' = parked.pbuf /\ readback_crc' = parked.readback_crc
    /\ rd' = parked.rd /\ taken' = parked.taken /\ ret_at' = parked.ret_at
    /\ fac' = parked.fac
    /\ UNCHANGED << drv, ncalls, tx, rx, pending, genpoly, crctable, accum,
                    folded, static_i, bld >>

\* amc_get_uint16(drv, index, offset, buffer): amc_get_string with a bufsize
\* of sizeof(uint16_t), up to its call of amc_cmd_write
CallGetUint16 ==
    \E g \in Garbage :
        FacadeCall("amc_get_string", AMC_CMDTYPE_READ, 11, 0, SizeofU16,
                   SizeofU16, << >>, 0, g)

\* the drive answers the command it received last, on a quiet line
DriveAnswer ==
    /\ pc = "cmd_ret"
    /\ fac.fn # "none"
    /\ ret > 0
    /\ rx = << >>
    /\ ~pending
    /\ \E f \in Uint16Answers(drv.seq_ctr) : rx' = f
    /\ pending' = TRUE
    /\ UNCHANGED << xvars, drv, pc, ret, wvars, rcall, rsp, pbuf, readback_crc,
                    rd, taken, ret_at >>

NextShared ==
    \/ CallGetUint16
    \/ amc_cmd_write
    \/ DriveAnswer
    \/ GetStringAfterWrite
    \/ PollHeader \/ ReadHeader
    \/ PollPayload \/ ReadPayload
    \/ PollPayloadCrc \/ ReadPayloadCrc
    \/ FacadeAfterRead
    \/ FacadeReturn
    \/ Preempt

SpecShared == Init /\ [][NextShared]_vars

(***************************************************************************)
(* crc.c on its own: amc_crc_mktable and amc_crc_check_word                *)
(***************************************************************************)
\* the polynomials given to amc_crc_mktable: that of the protocol, that of
\* CRC-16, and the ones with no, one low, one high and all bits set
Polys == {0, 1, AMC_CRC_POLY, 32773, 32768, 65535}
\* the accumulators a fold starts from
Accums == {0, 1, 255, 256, AMC_CRC_POLY, 32768, 43690, 65535}
\* the bytes folded
DataBytes == {0, 1, 128, AMC_SOF_BYTE, 255}

\* a polynomial and an accumulator are chosen; no table is built yet
InitCrc ==
    /\ InitSession
    /\ genpoly \in Polys
    /\ crctable = << >>
    /\ accum \in Accums
    /\ folded = << >>

\* crctable = amc_crc_mktable(genpoly)
MkTable ==
    /\ DOMAIN crctable = {}
    /\ crctable' = amc_crc_mktable(genpoly)
    /\ UNCHANGED << drv, pc, ret, wvars, rvars, fac, genpoly, accum, folded,
                    tvars >>

\* amc_crc_check_word(data, &accum, crctable) for a byte data
CheckWord ==
    /\ DOMAIN crctable # {}
    /\ Len(folded) < MaxFolds
    /\ \E data \in DataBytes :
          /\ accum' = amc_crc_check_word(data, accum, crctable)
          /\ folded' = Append(folded, << accum, data >>)
    /\ UNCHANGED << drv, pc, ret, wvars, rvars, fac, genpoly, crctable, tvars >>

NextCrc == MkTable \/ CheckWord

SpecCrc == InitCrc /\ [][NextCrc]_vars

(***************************************************************************)
(* crc.c statement by statement: table builds that run interleaved.  The  *)
(* loop counter of crchware is static (crc.c:25), one object for all the  *)
(* calls; a step holds at most one access to it.                           *)
(***************************************************************************)
\* the polynomial amc_drive_new builds its table for
BuildPolys == {AMC_CRC_POLY}

\* one shift of the loop body of crchware: the new accum
ShiftAccum(data, poly, acc) ==
    IF (Xor(data, acc) \div 32768) % 2 = 1
    THEN U16(Xor(acc * 2, poly))
    ELSE U16(acc * 2)

\* amc_crc_mktable(poly) is called; malloc gives the table or NULL
MkTableCall(b) ==
    /\ bld[b].pc = "off"
    /\ \E poly \in BuildPolys, pc1 \in {"mk_for", "null"} :
          bld' = [bld EXCEPT ![b] = [NoBuild EXCEPT !.pc = pc1, !.poly = poly]]
    /\ UNCHANGED << drv, pc, ret, wvars, rvars, fac, genpoly, crctable, accum,
                    folded, static_i, parked, switches >>

\* for (i = 0; i < 256; i++) crctable[i] = crchware(i, poly, 0): the test
\* of the loop and the call, up to data <<= 8 and the i = 8 of the inner
\* loop; return crctable after the last entry followed
MkTableFor(b) ==
    /\ bld[b].pc = "mk_for"
    /\ IF bld[b].i < MaxEntries
       THEN /\ bld' = [bld EXCEPT ![b] =
                         [bld[b] EXCEPT !.data = U16(bld[b].i * 256),
                                        !.accum = 0, !.pc = "hw_test"]]
            /\ static_i' = 8
       ELSE /\ bld' = [bld EXCEPT ![b] = [bld[b] EXCEPT !.pc = "done"]]
            /\ UNCHANGED static_i
    /\ UNCHANGED << drv, pc, ret, wvars, rvars, fac, genpoly, crctable, accum,
                    folded, parked, switches >>

\* for (...; i > 0; ...) and the loop body, or return accum into crctable[i]
\* (the locals of crchware go out of scope)
HwTest(b) ==
    /\ bld[b].pc = "hw_test"
    /\ bld' = [bld EXCEPT ![b] =
                 IF static_i > 0
                 THEN [bld[b] EXCEPT
                          !.accum = ShiftAccum(bld[b].data, bld[b].poly, bld[b].accum),
                          !.data = U16(bld[b].data * 2),
                          !.pc = "hw_dec"]
                 ELSE [bld[b] EXCEPT
                          !.crctable = Append(bld[b].crctable, bld[b].accum),
                          !.i = bld[b].i + 1,
                          !.data = 0, !.accum = 0,
                          !.pc = "mk_for"]]
    /\ UNCHANGED << drv, pc, ret, wvars, rvars, fac, genpoly, crctable, accum,
                    folded, static_i, parked, switches >>

\* i--: the read of i
HwDecRead(b) ==
    /\ bld[b].pc = "hw_dec"
    /\ bld' = [bld EXCEPT ![b] = [bld[b] EXCEPT !.tmp = static_i, !.pc = "hw_dec_wr"]]
    /\ UNCHANGED << drv, pc, ret, wvars, rvars, fac, genpoly, crctable, accum,
                    folded, static_i, parked, switches >>

\* i--: the write of i
HwDecWrite(b) ==
    /\ bld[b].pc = "hw_dec_wr"
    /\ static_i' = bld[b].tmp - 1
    /\ bld' = [bld EXCEPT ![b] = [bld[b] EXCEPT !.tmp = 0, !.pc = "hw_test"]]
    /\ UNCHANGED << drv, pc, ret, wvars, rvars, fac, genpoly, crctable, accum,
                    folded, parked, switches >>

NextBuild ==
    \E b \in Builders :
        \/ MkTableCall(b)
        \/ MkTableFor(b)
        \/ HwTest(b)
        \/ HwDecRead(b)
        \/ HwDecWrite(b)

\* no table build has begun; the session plays no part in a build
InitBuild == Init /\ drv.debug = 0

SpecBuild == InitBuild /\ [][NextBuild]_vars

(***************************************************************************)
(* Reference definitions used by the properties                            *)
(***************************************************************************)
\* the checksum table of the protocol's polynomial
RefTable == amc_crc_mktable(AMC_CRC_POLY)

\* the fold of a byte sequence into the accumulator acc, first byte first:
\* acc <- (acc << 8) XOR table[(acc >> 8) XOR byte], in 16 bits
RECURSIVE RefFold(_, _)
RefFold(bytes, acc) ==
    IF bytes = << >> THEN acc
    ELSE RefFold(Tail(bytes),
                 Xor((acc * 256) % 65536, RefTable[Xor(acc \div 256, Head(bytes))]))

\* a 16-bit value as two bytes, high byte first
BigEndian(x) == << x \div 256, x % 256 >>

\* q and r agree on the positions both have among the first n
AgreeUpTo(q, r, n) ==
    \A qq \in {q}, rr \in {r} :
        \A i \in 1..Min(n, Min(Len(qq), Len(rr))) : qq[i] = rr[i]

\* amc_cmd_write has returned; call holds its arguments, call.cmd the
\* caller's header as it was passed in
CmdReturned == pc = "cmd_ret"

\* the full length of the frame of the call recorded in call
FullFrameLen ==
    IF call.payload_len > 0
    THEN SizeofHeader + call.payload_len + SizeofU16
    ELSE SizeofHeader

(***************************************************************************)
(* Properties of amc_cmd_write                                             *)
(***************************************************************************)
\* C1: after n calls of amc_cmd_write on a session created by amc_drive_new
\* the sequence counter is n mod 16, whatever the outcome of each call was;
\* it is always in 0..15.
C1_SeqCounter ==
    /\ drv.seq_ctr \in 0..15
    /\ drv.seq_ctr = ncalls % 16

\* C1 witness: the sixteenth call, a failed one, has wrapped the counter.
C1_Witness ==
    CmdReturned /\ ncalls = 16 /\ ret = -1 /\ drv.seq_ctr = 0

\* the header the claim C2 describes
ClaimedHeader(address, access_type, seq, index, offset, payload_len_words) ==
    << AMC_SOF_BYTE, address, access_type + 4 * seq, index, offset,
       payload_len_words >>
    \o BigEndian(RefFold(<< AMC_SOF_BYTE, address, access_type + 4 * seq,
                            index, offset, payload_len_words >>, 0))

\* C2: the bytes amc_cmd_write transmits start with 0xA5, the session
\* address, accessType + 4 * (incremented sequence number), the caller's
\* index and offset, payloadLenWords, and the fold from 0 of these six bytes,
\* high byte first.
C2_HeaderBytes ==
    CmdReturned =>
        AgreeUpTo(tx, ClaimedHeader(drv.address, call.access_type, drv.seq_ctr,
                                    call.cmd.index, call.cmd.offset,
                                    cmd.payload_len), SizeofHeader)

\* C2 witness: a whole read-write frame sent with sequence number 15.
C2_Witness ==
    /\ CmdReturned /\ ret > 0 /\ Len(tx) >= SizeofHeader
    /\ call.access_type = AMC_CMDTYPE_READWRITE
    /\ drv.seq_ctr = 15 /\ call.cmd.index = 140

\* C3: the header bytes transmitted do not depend on the payload bytes (the
\* same call with any other payload of the same length builds the same 8
\* header bytes), and the trailer after the payload is the fold of the
\* payload bytes alone from 0, high byte first.
C3_IndependentChecksums ==
    CmdReturned =>
        /\ \A p2 \in SeqsOfLen(PayloadBytes, call.payload_len) :
              AgreeUpTo(tx, BuildCommand(drv, call.cmd, call.access_type,
                                         call.response_len, p2,
                                         call.payload_len).frame,
                        SizeofHeader)
        /\ (call.payload_len > 0 /\ Len(tx) = FullFrameLen) =>
              SubSeq(tx, SizeofHeader + call.payload_len + 1, FullFrameLen)
                 = BigEndian(RefFold(call.payload, 0))

\* C3 witness: a whole frame with a two-byte payload has been sent.
C3_Witness ==
    /\ CmdReturned /\ call.payload_len = 2 /\ Len(tx) = FullFrameLen
    /\ call.payload = << 1, 255 >>

\* C4: payloadLenWords is response_len / 2 for a read and payload_len / 2 for
\* a write or read-write, for every non-negative length.
C4_PayloadLenWords ==
    (CmdReturned /\ call.access_type \in 1..3) =>
        cmd.payload_len = IF call.access_type = AMC_CMDTYPE_READ
                          THEN call.response_len \div 2
                          ELSE call.payload_len \div 2

\* C5 as stated: a call with an access type outside 1..3 fails, writes
\* nothing to the transport and builds no header byte.
C5_NothingBuilt ==
    (CmdReturned /\ call.access_type \notin 1..3) =>
        ret = -1 /\ tx = << >> /\ cmd = call.cmd

\* C5 amended: a call with an access type outside 1..3 fails and writes
\* nothing to the transport; of the caller's header it has set the start
\* byte, the address and the control byte, and nothing else (no payload
\* length, no checksum).
C5_NothingSent ==
    (CmdReturned /\ call.access_type \notin 1..3) =>
        /\ ret = -1
        /\ tx = << >>
        /\ cmd = [call.cmd EXCEPT !.sof = AMC_SOF_BYTE,
                                  !.addr = drv.address,
                                  !.control = ControlBits((call.access_type % 4)
                                                          + 4 * drv.seq_ctr)]

\* C5 witness: a call with access type 0 and a payload has returned.
C5_Witness ==
    CmdReturned /\ call.access_type = 0 /\ ret = -1 /\ call.payload_len > 0

\* C6: the frame goes to the transport as header, payload and payload
\* checksum in one write; fewer bytes accepted than the full frame is a
\* failure, the full frame returns its length.
C6_WriteShortfall ==
    (CmdReturned /\ call.access_type \in 1..3) =>
        /\ Len(tx) < FullFrameLen => ret = -1
        /\ Len(tx) = FullFrameLen =>
              /\ ret = FullFrameLen
              /\ call.payload_len > 0 =>
                    SubSeq(tx, SizeofHeader + 1, SizeofHeader + call.payload_len)
                       = call.payload
        /\ Len(tx) <= FullFrameLen
        /\ AgreeUpTo(tx, CommandBytes(cmd), SizeofHeader)

\* C6 witness: a write of a frame of 12 bytes stopped after 9.
C6_Witness ==
    /\ CmdReturned /\ call.access_type = AMC_CMDTYPE_WRITE
    /\ call.payload_len = 2 /\ Len(tx) = 9 /\ ret = -1

(***************************************************************************)
(* Properties of amc_resp_read                                             *)
(***************************************************************************)
\* amc_resp_read is running or has returned
InRespRead ==
    pc \in {"hdr_poll", "hdr_read", "pay_poll", "pay_read", "crc_poll",
            "crc_read", "resp_ret", "aborted"}

\* amc_resp_read has returned
RespReturned == pc = "resp_ret"

\* the call returned because a wait timed out
TimedOut == ret_at \in {203, 278, 314}

\* the call has read a whole header from the transport
HeaderTaken == InRespRead /\ Len(taken) >= SizeofHeader

\* the checksum of the header received is the fold of its first six bytes
HeaderValid ==
    BigEndian(RefFold(SubSeq(taken, 1, 6), 0)) = SubSeq(taken, 7, 8)

\* fields of the header received
TakenStatus1 == taken[4]
TakenWords == taken[6]
TakenDataBearing == taken[3] % 4 \in {2, 3}

\* the call has read the header of a sound data-bearing response and was
\* given a payload buffer
DataResponse ==
    /\ HeaderTaken /\ HeaderValid
    /\ TakenStatus1 = AMC_CMDRESP_COMPLETE
    /\ TakenDataBearing
    /\ ~rcall.payload_null

\* C7: no byte is stored at or beyond offset payload_max_size of the payload
\* buffer (nor outside the header or the checksum local).
C7_NoStoreBeyondCapacity ==
    InRespRead => rd.oob = 0

\* C8: a sound data-bearing response that announces more payload bytes than
\* payload_max_size, read without a timeout, ends in the failure return of
\* the size check, never in success.
C8_OverflowReported ==
    (RespReturned /\ DataResponse /\ ~TimedOut
        /\ TakenWords * 2 > rcall.payload_max_size)
    => (ret = -1 /\ ret_at = 290)

\* C8 witness: 4 payload bytes were announced and read for a buffer of 2.
C8_Witness ==
    /\ RespReturned /\ DataResponse /\ ret = -1
    /\ rcall.payload_max_size = 2 /\ TakenWords = 2 /\ Len(taken) = 12

\* C9: once the 8 header bytes are read, a header whose bytes 7-8 are not the
\* big-endian fold of its first six bytes makes the call fail at the checksum
\* comparison, before status1 is looked at and with no further byte read; a
\* header whose checksum matches does not fail there.
C9_HeaderChecksum ==
    HeaderTaken =>
        IF HeaderValid
        THEN ret_at # 236
        ELSE /\ RespReturned /\ ret = -1 /\ ret_at = 236
             /\ Len(taken) = SizeofHeader

\* C9 witness: a header with a bad checksum and a status other than complete
\* was rejected with its payload still unread.
C9_Witness ==
    /\ RespReturned /\ HeaderTaken /\ ~HeaderValid /\ ret = -1
    /\ TakenStatus1 = AMC_CMDRESP_INVALID /\ Len(rx) = 4

\* the payload bytes and the trailer of the response received
TakenPayload == SubSeq(taken, SizeofHeader + 1, SizeofHeader + 2 * TakenWords)
TakenTrailer ==
    SubSeq(taken, SizeofHeader + 2 * TakenWords + 1,
                  SizeofHeader + 2 * TakenWords + 2)

\* C10: for a sound data-bearing response whose payload fits the buffer and
\* is read without a timeout, the call reads the payload and the 2-byte
\* trailer and succeeds exactly if the trailer is the big-endian fold, from 0,
\* of the payloadLenWords * 2 payload bytes; otherwise it fails.
C10_PayloadChecksum ==
    (RespReturned /\ DataResponse /\ ~TimedOut
        /\ TakenWords * 2 <= rcall.payload_max_size)
    => /\ Len(taken) = SizeofHeader + 2 * TakenWords + 2
       /\ SubSeq(pbuf, 1, 2 * TakenWords) = TakenPayload
       /\ IF BigEndian(RefFold(TakenPayload, 0)) = TakenTrailer
          THEN ret >= 0 /\ ret_at = 346
          ELSE ret = -1 /\ ret_at = 343

\* C10 witness: a payload of two words came with a trailer that does not
\* match and the call failed.
C10_Witness ==
    /\ RespReturned /\ DataResponse /\ TakenWords = 2
    /\ Len(taken) = 14 /\ ret = -1 /\ ret_at = 343

\* C11: a response whose header checksum is valid and whose status1 is not
\* complete makes the call fail at the status check with exactly the 8 header
\* bytes read, whatever its control byte and payloadLenWords announce.
C11_StatusFailureStopsDecoding ==
    (HeaderTaken /\ HeaderValid /\ TakenStatus1 # AMC_CMDRESP_COMPLETE)
    => /\ RespReturned /\ ret = -1 /\ ret_at = 256
       /\ Len(taken) = SizeofHeader

\* C11 witness: a valid header with status invalid, a data-bearing control
\* byte and two payload words was rejected; payload and trailer are unread.
C11_Witness ==
    /\ RespReturned /\ HeaderTaken /\ HeaderValid /\ ret = -1
    /\ TakenStatus1 = AMC_CMDRESP_INVALID /\ TakenDataBearing
    /\ TakenWords = 2 /\ Len(rx) = 6

\* the failure outcome the claim assigns to a status1 other than complete:
\* one per named status, one for all the others
StatusOutcome(status1) ==
    IF status1 \in {AMC_CMDRESP_INCOMPLETE, AMC_CMDRESP_INVALID,
                    AMC_CMDRESP_NOACCESS, AMC_CMDRESP_FRAMEERR}
    THEN status1 ELSE 0

\* C12: what the caller gets for a status1 other than complete (the value
\* returned and the line printed) differs from what it would get for every
\* status1 of another outcome: incomplete, invalid, no-access, frame-error
\* and unknown status are told apart.
C12_DistinctStatusFailures ==
    (RespReturned /\ HeaderTaken /\ HeaderValid
        /\ TakenStatus1 # AMC_CMDRESP_COMPLETE)
    => \A s \in DriveStatuses \ {AMC_CMDRESP_COMPLETE} :
          StatusOutcome(s) # StatusOutcome(TakenStatus1)
          => << StatusReturn(s), StatusMessage(drv.debug, s) >>
                # << ret, StatusMessage(drv.debug, TakenStatus1) >>

\* C13: a wait that times out in the header, payload or checksum phase ends
\* the call at once with failure: the step that times out reads nothing and
\* returns -1, and no read follows it, however many bytes were read before.
C13_TimeoutEndsCall ==
    /\ [](TimedOut => (RespReturned /\ ret = -1))
    /\ [][(pc \in {"hdr_poll", "pay_poll", "crc_poll"} /\ TimedOut')
            => (pc' = "resp_ret" /\ ret' = -1 /\ taken' = taken /\ rx' = rx)]_vars

\* C13 witness: the wait timed out in the checksum phase after the header,
\* a payload of one word and one byte of the trailer had been read.
C13_Witness ==
    /\ RespReturned /\ ret_at = 314 /\ ret = -1
    /\ Len(taken) = SizeofHeader + 3 /\ Len(rx) = 1

\* C14: a successful call returns 8 for a control byte that is not
\* data-bearing and 8 + 2 * payloadLenWords for one that is; the two bytes
\* of the trailer are not counted.
C14_SuccessCount ==
    (RespReturned /\ ret >= 0)
    => /\ HeaderTaken
       /\ ret = IF TakenDataBearing
                THEN SizeofHeader + 2 * TakenWords
                ELSE SizeofHeader

\* C14 witness: a data-bearing response of two words was read with its
\* trailer, 14 bytes in all, and the call returned 12.
C14_Witness ==
    /\ RespReturned /\ ret = 12 /\ TakenDataBearing /\ TakenWords = 2
    /\ Len(taken) = 14

(***************************************************************************)
(* Properties of a command and its response together                       *)
(***************************************************************************)
\* amc_resp_read is reading, or has read, the answer of the echoing peer to
\* the command amc_cmd_write has written in full
EchoRead == InRespRead /\ Len(tx) >= SizeofHeader

\* C15: a payload of whole words written by amc_cmd_write as a write or
\* read-write command and echoed by a peer that follows the same checksum
\* rules is decoded with success by amc_resp_read into a buffer that can
\* hold it, read without a timeout: the call returns 8 plus the payload
\* length and the buffer holds the payload bytes written, in their order.
C15_RoundTrip ==
    (RespReturned /\ EchoRead /\ ~TimedOut
        /\ ~rcall.payload_null /\ rcall.payload_max_size >= call.payload_len)
    => /\ ret = SizeofHeader + call.payload_len
       /\ ret_at = 346
       /\ SubSeq(pbuf, 1, call.payload_len) = call.payload

\* C15 witness: the payload 1, 255 of a read-write command came back into a
\* buffer of 4 bytes.
C15_Witness ==
    /\ RespReturned /\ EchoRead /\ ret = 10
    /\ call.access_type = AMC_CMDTYPE_READWRITE
    /\ call.payload = << 1, 255 >>
    /\ rcall.payload_max_size = 4 /\ SubSeq(pbuf, 1, 2) = << 1, 255 >>

\* the fields of a session other than the sequence counter
OtherFields(d) == [d EXCEPT !.seq_ctr = 0]

InFacade == fac.fn # "none"

\* calls of amc_cmd_write made by the facade call in progress
FacadeWrites == ncalls - fac.ncalls0

\* the transport has accepted the whole command of the call in progress
CommandWritten == FacadeWrites = 1 /\ Len(tx) = FullFrameLen

\* the session is in Sent: the command is written and the facade call has
\* not yet come to its result
Sent == InFacade /\ CommandWritten /\ pc # "fac_ret"

\* C16: a facade call makes at most one call of amc_cmd_write and then at
\* most one call of amc_resp_read, the second only after the first has
\* written the whole command; it ends with 0 if both succeeded and with -1 at
\* the first failure; between facade calls the session is idle, and no
\* command is written while a written command awaits its response.
C16_OneWriteThenOneRead ==
    /\ [](IF InFacade
          THEN /\ FacadeWrites \in {0, 1}
               /\ fac.reads \in {0, 1}
               /\ (pc = "cmd_call") = (FacadeWrites = 0)
               /\ fac.reads = 1 => CommandWritten
               /\ InRespRead => fac.reads = 1
               /\ pc = "fac_ret" =>
                      fac.ret = IF CommandWritten /\ fac.reads = 1 /\ ret >= 0
                                THEN 0 ELSE -1
          ELSE pc = "idle")
    /\ [][Sent => ncalls' = ncalls]_vars

\* C16 witness: the second facade call on the session, an amc_write_string,
\* has written its command, read the response and come to the result 0.
C16_Witness ==
    /\ pc = "fac_ret" /\ fac.fn = "amc_write_string" /\ fac.ret = 0
    /\ ncalls = 2 /\ fac.reads = 1 /\ Len(taken) = SizeofHeader

\* C20: amc_get_string writes one header-only read command with the given
\* index and offset and payloadLenWords = bufsize / 2, nothing after the
\* header, then decodes one response into the buffer with capacity bufsize,
\* and returns 0 if both steps succeeded and -1 otherwise.
C20_GetString ==
    (fac.fn = "amc_get_string" /\ pc = "fac_ret")
    => /\ FacadeWrites = 1
       /\ Len(tx) <= SizeofHeader
       /\ AgreeUpTo(tx,
                    << AMC_SOF_BYTE, drv.address,
                       AMC_CMDTYPE_READ + 4 * drv.seq_ctr,
                       call.cmd.index, call.cmd.offset, fac.bufsize \div 2 >>,
                    SizeofHeader - SizeofU16)
       /\ Len(tx) = SizeofHeader =>
              SubSeq(tx, 7, 8) = BigEndian(RefFold(SubSeq(tx, 1, 6), 0))
       /\ fac.reads = 1 =>
              /\ ~rcall.payload_null
              /\ rcall.payload_max_size = fac.bufsize
       /\ fac.ret = IF Len(tx) = SizeofHeader /\ fac.reads = 1 /\ ret >= 0
                    THEN 0 ELSE -1

(***************************************************************************)
(* Properties of crc.c                                                     *)
(***************************************************************************)
\* bit n (0 the lowest) of x
Bit(x, n) == (x \div (2 ^ n)) % 2

\* the 16-bit value with the bits b[0] .. b[15], b[0] the lowest
FromBits(b) ==
    b[0] + 2 * b[1] + 4 * b[2] + 8 * b[3] + 16 * b[4] + 32 * b[5] + 64 * b[6]
    + 128 * b[7] + 256 * b[8] + 512 * b[9] + 1024 * b[10] + 2048 * b[11]
    + 4096 * b[12] + 8192 * b[13] + 16384 * b[14] + 32768 * b[15]

\* one iteration of the shift register: the top bit of the data register is
\* compared with the top bit of the accumulator; the accumulator is shifted
\* left and, when the two bits differ, the polynomial is added bit by bit
ShiftStep(reg, poly, acc) ==
    FromBits([n \in 0..15 |->
        LET shifted == IF n = 0 THEN 0 ELSE Bit(acc, n - 1)
        IN IF Bit(reg, 15) # Bit(acc, 15)
           THEN (shifted + Bit(poly, n)) % 2
           ELSE shifted])

\* the accumulator after k iterations on the data register reg
RECURSIVE ShiftRegister(_, _, _, _)
ShiftRegister(k, reg, poly, acc) ==
    IF k = 0 THEN acc
    ELSE ShiftRegister(k - 1, (reg * 2) % 65536, poly, ShiftStep(reg, poly, acc))

\* the 8-iteration shift register on byte b from accumulator acc
ShiftByte(b, poly, acc) == ShiftRegister(8, b * 256, poly, acc)

\* a table has been built
TableBuilt == DOMAIN crctable # {}

\* C18: the table amc_crc_mktable returns for a polynomial has the 256
\* entries 0..255, entry 0 is 0, entry 1 is the polynomial, and entry b is
\* what the 8-iteration shift register makes of byte b from accumulator 0;
\* for 0x1021 entries 0 and 1 are 0x0000 and 0x1021.  (The 256 entries are
\* compared when the table is returned; no fold changes the table.)
C18_Table ==
    TableBuilt =>
        /\ DOMAIN crctable = 0..255
        /\ crctable[0] = 0
        /\ crctable[1] = genpoly
        /\ folded = << >> =>
               \A b \in 0..255 : crctable[b] = ShiftByte(b, genpoly, 0)
        /\ genpoly = 4129 => (crctable[0] = 0 /\ crctable[1] = 4129)

\* C18 witness: the table of the polynomial 0x1021 is built.
C18_Witness ==
    TableBuilt /\ genpoly = 4129 /\ crctable[1] = 4129 /\ crctable[255] # 0

\* accumulator and data of the last fold
LastFold == folded[Len(folded)]

\* C19: a fold of byte b into accumulator a leaves
\* ((a << 8) mod 2^16) XOR table[(a >> 8) XOR b], which is what the
\* 8-iteration shift register makes of b from a; folding 0x01 into 0 with
\* the table of 0x1021 gives 0x1021.
C19_FoldAgreesWithShiftRegister ==
    (TableBuilt /\ folded # << >>)
    => /\ accum = XorBits((LastFold[1] * 256) % 65536,
                          crctable[XorBits(LastFold[1] \div 256, LastFold[2])])
       /\ accum = ShiftByte(LastFold[2], genpoly, LastFold[1])
       /\ (genpoly = 4129 /\ LastFold = << 0, 1 >>) => accum = 4129

\* C19 witness: 0x01 was folded into the accumulator 0 with the table of
\* 0x1021, and 0xFF into an accumulator with bits in both bytes.
C19_Witness ==
    /\ TableBuilt /\ genpoly = 4129 /\ Len(folded) = 2
    /\ folded[1] = << 0, 1 >> /\ folded[2] = << 4129, 255 >>

(***************************************************************************)
(* Properties of amc_resp_read and the byte stream                         *)
(***************************************************************************)
\* C21: amc_resp_read takes from the transport the bytes it decodes and
\* drops none: a call that ends at the header has taken 8 bytes, a
\* data-bearing success 8 + 2 * payloadLenWords + 2; entering and leaving
\* the call leaves the unread bytes as they are, every read takes the oldest
\* unread bytes, and the first bytes a call takes are stored as its header.
C21_ConsumesWhatItDecodes ==
    /\ [](RespReturned =>
            /\ ret_at \in {236, 256, 260} => Len(taken) = SizeofHeader
            /\ ret_at = 346 =>
                   Len(taken) = SizeofHeader + 2 * TakenWords + SizeofU16)
    /\ [][/\ (pc = "idle" /\ pc' # "idle") => (taken' = << >> /\ rx' = rx)
          /\ (pc # "idle" /\ pc' # "idle") => taken' \o rx' = taken \o rx
          /\ (pc # "idle" /\ pc' = "idle") => rx' = rx
          /\ (pc' # "idle" /\ Len(taken') <= SizeofHeader)
                => SubSeq(rsp', 1, Len(taken')) = taken']_vars

\* C21 witness: the two bytes an earlier call left unread were all a later
\* call found; it took them as the start of its header and timed out.
C21_Witness ==
    /\ RespReturned /\ TimedOut /\ Len(taken) = 2 /\ rx = << >>
    /\ SubSeq(rsp, 1, 2) = taken

\* the bytes the transport holds for a call, read or not
Stream == taken \o rx

\* what the bytes of the stream decode to, however they arrive
StreamHeader == SubSeq(Stream, 1, SizeofHeader)
StreamWords == Stream[6]
StreamPayload == SubSeq(Stream, SizeofHeader + 1, SizeofHeader + 2 * StreamWords)
StreamTrailer == SubSeq(Stream, SizeofHeader + 2 * StreamWords + 1, SizeofHeader + 2 * StreamWords + 2)
StreamHeaderValid == BigEndian(RefFold(SubSeq(Stream, 1, 6), 0)) = SubSeq(Stream, 7, 8)
StreamHasPayload ==
    /\ StreamHeaderValid
    /\ Stream[4] = AMC_CMDRESP_COMPLETE
    /\ Stream[3] % 4 \in {2, 3}

\* the return value the stream determines for a buffer of cap bytes
StreamResult(cap) ==
    IF ~StreamHeaderValid THEN -1
    ELSE IF Stream[4] # AMC_CMDRESP_COMPLETE THEN -1
    ELSE IF Stream[3] % 4 \notin {2, 3} THEN SizeofHeader
    ELSE IF 2 * StreamWords > cap THEN -1
    ELSE IF BigEndian(RefFold(StreamPayload, 0)) = StreamTrailer
    THEN SizeofHeader + 2 * StreamWords
    ELSE -1

C23_InterruptedWaitRetried ==
    /\ [][rd'.eintr > rd.eintr =>
            /\ pc \in {"hdr_poll", "pay_poll", "crc_poll"}
            /\ pc' = pc
            /\ rd' = [rd EXCEPT !.eintr = rd'.eintr]
            /\ UNCHANGED << ret, ret_at, rsp, pbuf, readback_crc, taken, rx,
                            rcall, drv >>]_vars
    /\ []((RespReturned /\ rd.eintr > 0 /\ ~TimedOut) =>
            /\ ret = StreamResult(rcall.payload_max_size)
            /\ rsp = StreamHeader)

\* C23 witness: a call whose wait was interrupted went on to read a payload
\* of two words and returned success.
C23_Witness ==
    /\ RespReturned /\ rd.eintr = 1 /\ ret = 12 /\ ret_at = 346
    /\ Len(taken) = 14

(***************************************************************************)
(* Properties of the frames written                                        *)
(***************************************************************************)
\* the number of payload bytes of the frame on the wire: what lies between
\* the 8 header bytes and the 2 checksum bytes
PayloadOnWire == IF Len(tx) > SizeofHeader THEN Len(tx) - SizeofHeader - SizeofU16 ELSE 0

\* C24: every write or read-write frame that amc_cmd_write has transmitted
\* in full carries exactly twice as many payload bytes as the payloadLenWords
\* of its header announces.
C24_PayloadLengthAgrees ==
    (CmdReturned /\ ret > 0
        /\ call.access_type \in {AMC_CMDTYPE_WRITE, AMC_CMDTYPE_READWRITE})
    => PayloadOnWire = 2 * tx[6]

(***************************************************************************)
(* Termination of amc_resp_read                                            *)
(***************************************************************************)
\* C25: every call of amc_resp_read eventually returns (or ends the process
\* at its assertion), whatever the waits answer and whatever counts from 0
\* up to the count requested the reads return.
C25_CallReturns ==
    (pc = "hdr_poll") ~> (pc \in {"resp_ret", "aborted"})

(***************************************************************************)
(* Properties of the responses the facade functions accept                 *)
(***************************************************************************)
\* a facade function has returned to its caller
FacadeReturned == pc = "fac_ret"

\* C28: a facade call succeeds only on a response whose control byte carries
\* the sequence number of the command last sent on the session.
C28_SequenceChecked ==
    (FacadeReturned /\ fac.ret = 0 /\ fac.reads = 1)
    => ControlBits(taken[3]).seq = drv.seq_ctr

\* C29: when amc_get_string returns 0 the response carried a payload of
\* exactly bufsize bytes with a matching checksum and the buffer holds it.
C29_GetStringDelivers ==
    (FacadeReturned /\ fac.fn = "amc_get_string" /\ fac.ret = 0)
    => /\ TakenDataBearing
       /\ 2 * TakenWords = fac.bufsize
       /\ Len(taken) = SizeofHeader + fac.bufsize + SizeofU16
       /\ pbuf = TakenPayload
       /\ BigEndian(RefFold(TakenPayload, 0)) = TakenTrailer

\* C30: amc_write_string, on a response with a valid header checksum, status
\* complete and a data-bearing control byte, does not end the process,
\* stores nothing outside an object and returns -1.
C30_WriteStringFails ==
    (fac.fn = "amc_write_string" /\ HeaderTaken /\ HeaderValid
        /\ TakenStatus1 = AMC_CMDRESP_COMPLETE /\ TakenDataBearing)
    => /\ pc # "aborted"
       /\ rd.oob = 0
       /\ FacadeReturned => fac.ret = -1

(***************************************************************************)
(* Properties of interleaved table builds                                  *)
(***************************************************************************)
\* C27: a table build that has returned holds, for each entry it computed,
\* the value crchware gives for that index on its own, also when another
\* build ran interleaved with it.
C27_InterleavedBuildsAgree ==
    \A b \in Builders :
        bld[b].pc = "done" =>
            \A k \in 1..Len(bld[b].crctable) :
                bld[b].crctable[k] = crchware(k - 1, bld[b].poly, 0)

(***************************************************************************)
(* Properties of two callers on one session                                *)
(***************************************************************************)
\* the caller with locals c has written its command in full and has not
\* begun to read the response
Outstanding(c) == c.fac.fn # "none" /\ c.pc = "cmd_ret" /\ c.ret > 0

\* C26: nothing in the library keeps a second caller out of an exchange in
\* progress: while the command of the caller that runs is outstanding the
\* processor may go to the other caller; while the command of the parked
\* caller is outstanding the caller that runs may enter a facade function
\* and its amc_cmd_write, which waits for nothing, takes the next sequence
\* number of the session and leaves the parked caller as it is.
C26_NoMutualExclusion ==
    /\ []((Outstanding(Context) /\ switches < MaxSwitches) => ENABLED Preempt)
    /\ []((Outstanding(parked) /\ pc = "idle" /\ fac.fn = "none"
             /\ rx = << >> /\ ncalls < MaxFacadeCalls) => ENABLED CallGetUint16)
    /\ [][(Outstanding(parked) /\ pc = "cmd_call" /\ pc' = "cmd_ret"
              /\ switches' = switches)
             => /\ parked' = parked
                /\ drv'.seq_ctr = SeqNext(drv.seq_ctr)
                /\ ncalls' = ncalls + 1]_vars

\* C26 witness: both callers have written a command and neither has begun
\* to read a response; the drive has answered neither.
C26_Witness ==
    /\ Outstanding(Context) /\ Outstanding(parked)
    /\ drv.seq_ctr = 2 /\ ncalls = 2 /\ rx = << >> /\ ~pending

(***************************************************************************)
(* Properties of the loop counters of amc_resp_read                        *)
(***************************************************************************)
\* C31: while a loop of amc_resp_read runs, the count of bytes still to read
\* is at most the count the loop began with and the store position lies
\* within the destination of the loop: the 8 bytes of the header, the
\* payload_max_size bytes of the payload buffer, the 2 bytes of the
\* checksum.
C31_CountersStayInPhase ==
    /\ pc \in {"hdr_poll", "hdr_read"} =>
            /\ rd.bytes_to_read <= SizeofHeader
            /\ rd.rd_off \in 0..SizeofHeader
    /\ pc \in {"pay_poll", "pay_read"} =>
            /\ rd.bytes_to_read <= ResponseOf(rsp).payload_len * SizeofU16
            /\ rd.rd_off \in 0..rcall.payload_max_size
    /\ pc \in {"crc_poll", "crc_read"} =>
            /\ rd.bytes_to_read <= SizeofU16
            /\ rd.rd_off \in 0..SizeofU16

====
